---- MODULE Spec2Model ----
(***************************************************************************)
(* Model of the chat analyzer: the transcript parser of FileUpload.tsx,    *)
(* the page state of the Index component, and the analytics computed by    *)
(* the useMemo body of ChatAnalysis.tsx.                                   *)
(*                                                                         *)
(* Conventions.                                                            *)
(*  - A string of the program is a sequence of one-character strings.      *)
(*  - A Date is its getTime() value in whole seconds (the parser produces  *)
(*    second resolution); local time is UTC.                               *)
(*  - A JavaScript number is an integer here; every division of the source *)
(*    is kept as an exact fraction until the Math.round that follows it.   *)
(*    NaN is the value NaN below, which no metric of the program takes     *)
(*    otherwise (all of them are >= 0).                                    *)
(*  - A JavaScript object with computed keys is a function from key        *)
(*    strings to values; an undefined key is the key "undefined".          *)
(***************************************************************************)
EXTENDS Integers, Sequences, FiniteSets, TLC

VARIABLES
    chatData,      \* Index: the chatData state, null or a message list
    analysis,      \* ChatAnalysis: the value of the analysis memo
    isProcessing,  \* FileUpload: the isProcessing state of the mounted instance
    inst,          \* the number of the FileUpload instance now (or last) mounted
    reads,         \* the FileReader reads started and not yet ended
    toast,         \* the last toast shown
    submitted      \* the number of files submitted so far

vars == <<chatData, analysis, isProcessing, inst, reads, toast, submitted>>

----------------------------------------------------------------------------
(* Bounds of the analysed inputs *)

MaxMsgs == 3

(* Program constants, in the units of the model (seconds) *)
SecPerMin == 60
SecPerHour == 3600
SecPerDay == 86400
ResponseWindowMin == 1440
StarterGapHours == 4
DoubleTextMin == 5
CapsMinLen == 3
HighAbove == 10
MediumAbove == 5
DeviationWeight == 50
NoHitsScore == 50
NaN == -1

----------------------------------------------------------------------------
(* Numbers *)

Min(a, b) == IF a < b THEN a ELSE b
Abs(a) == IF a < 0 THEN 0 - a ELSE a

(* Math.round(p / q): the nearest integer, halves upwards; 0 / 0 is NaN *)
RoundDiv(p, q) == IF q = 0 THEN NaN ELSE (2 * p + q) \div (2 * q)

RECURSIVE SumSeq(_)
SumSeq(s) == IF s = <<>> THEN 0 ELSE Head(s) + SumSeq(Tail(s))

----------------------------------------------------------------------------
(* Objects with computed keys *)

(* The property key an undefined value is converted to *)
UndefinedKey == <<"u", "n", "d", "e", "f", "i", "n", "e", "d">>

(* { [k1]: v1, [k2]: v2 }: a later property of the same key replaces the earlier *)
Obj2(k1, v1, k2, v2) == [k \in {k1, k2} |-> IF k = k2 THEN v2 ELSE v1]

(* obj[k]++ : undefined + 1 is NaN, and NaN + 1 is NaN *)
Incr(obj, k) ==
    IF k \in DOMAIN obj
    THEN [obj EXCEPT ![k] = IF @ = NaN THEN NaN ELSE @ + 1]
    ELSE [j \in DOMAIN obj \cup {k} |-> IF j = k THEN NaN ELSE obj[j]]

(* obj[k].push(v); the caller checks that obj[k] is defined *)
Push(obj, k, v) == [obj EXCEPT ![k] = Append(@, v)]

----------------------------------------------------------------------------
(* Strings *)

(* Code points matched by the emoji ranges of the source, by name *)
EmojiChars == {"U+1F600", "U+2764"}
(* Those outside the basic plane: two UTF-16 units each *)
AstralChars == {"U+1F600", "U+1F929"}

LowerCase ==
    <<"a", "b", "c", "d", "e", "f", "g", "h", "i", "j", "k", "l", "m",
      "n", "o", "p", "q", "r", "s", "t", "u", "v", "w", "x", "y", "z">>
UpperCase ==
    <<"A", "B", "C", "D", "E", "F", "G", "H", "I", "J", "K", "L", "M",
      "N", "O", "P", "Q", "R", "S", "T", "U", "V", "W", "X", "Y", "Z">>

(* The place of a letter in one of the two alphabets *)
LetterIndex(abc, c) == CHOOSE i \in 1..Len(abc) : abc[i] = c

LowerToUpper ==
    [c \in {LowerCase[i] : i \in 1..Len(LowerCase)} |-> UpperCase[LetterIndex(LowerCase, c)]]
UpperToLower ==
    [c \in {UpperCase[i] : i \in 1..Len(UpperCase)} |-> LowerCase[LetterIndex(UpperCase, c)]]

(* \s: the white space of the inputs; the carriage return is white space too *)
WhiteSpace == {" ", "\r"}

toUpperCase(s) ==
    [i \in 1..Len(s) |-> IF s[i] \in DOMAIN LowerToUpper THEN LowerToUpper[s[i]] ELSE s[i]]

toLowerCase(s) ==
    [i \in 1..Len(s) |-> IF s[i] \in DOMAIN UpperToLower THEN UpperToLower[s[i]] ELSE s[i]]

(* The positions of s at which an occurrence of the string w starts *)
Occurrences(s, w) == {i \in 1..(Len(s) - Len(w) + 1) : SubSeq(s, i, i + Len(w) - 1) = w}

(* String.prototype.includes of a string *)
includesString(s, w) == Occurrences(s, w) /= {}

includes(s, ch) == \E i \in 1..Len(s) : s[i] = ch

CountOf(s, chars) == Cardinality({i \in 1..Len(s) : s[i] \in chars})

(* String.prototype.length: UTF-16 units *)
RECURSIVE length(_)
length(s) ==
    IF s = <<>> THEN 0
    ELSE (IF Head(s) \in AstralChars THEN 2 ELSE 1) + length(Tail(s))

----------------------------------------------------------------------------
(* Dates *)

getHours(t) == (t \div SecPerHour) % 24
(* 1 January 1970 was a Thursday (day 4); Sunday is day 0 *)
getDay(t) == ((t \div SecPerDay) + 4) % 7

----------------------------------------------------------------------------
(* ChatAnalysis: the body of the analysis memo *)

RECURSIVE Distinct(_, _)
Distinct(s, seen) ==
    IF s = <<>> THEN <<>>
    ELSE IF Head(s) \in seen THEN Distinct(Tail(s), seen)
    ELSE <<Head(s)>> \o Distinct(Tail(s), seen \cup {Head(s)})

(* [...new Set(messages.map(m => m.contact))] *)
contacts(ms) == Distinct([i \in 1..Len(ms) |-> ms[i].contact], {})

(* const [contact1, contact2] = contacts: contact2 is undefined with one contact *)
HasContact2(ms) == Len(contacts(ms)) >= 2
contact1(ms) == contacts(ms)[1]
key1(ms) == contact1(ms)
key2(ms) == IF HasContact2(ms) THEN contacts(ms)[2] ELSE UndefinedKey

contact1Messages(ms) == SelectSeq(ms, LAMBDA m : m.contact = contact1(ms))
(* Mutant: the second filter tests contact1 again *)
contact2MessagesSameFilter(ms) == contact1Messages(ms)
(* m.contact === undefined holds of no message *)
contact2Messages(ms) ==
    IF HasContact2(ms) THEN SelectSeq(ms, LAMBDA m : m.contact = contacts(ms)[2]) ELSE <<>>

RECURSIVE SumLength(_)
SumLength(cm) == IF cm = <<>> THEN 0 ELSE length(Head(cm).message) + SumLength(Tail(cm))

(* Math.round(contactNAvgLength) *)
avgLength(cm) == RoundDiv(SumLength(cm), Len(cm))

totalMessages(ms) == Len(ms)

Interest(cm, total) == RoundDiv(Len(cm) * 100, total)
contact1Interest(ms) == Interest(contact1Messages(ms), totalMessages(ms))
(* Mutant: the second share is taken of contact1's messages *)
contact2InterestOfContact1(ms) == Interest(contact1Messages(ms), totalMessages(ms))
contact2Interest(ms) == Interest(contact2Messages(ms), totalMessages(ms))

(* Mutant: the balance term alone *)
CompatBalanceOnly(i1, i2) == 100 - Abs(i1 - i2)
(* Mutant: the sum of the two terms, not halved *)
CompatNotHalved(i1, i2) == Min(i1, i2) + (100 - Abs(i1 - i2))
Compat(i1, i2) == RoundDiv(Min(i1, i2) + (100 - Abs(i1 - i2)), 2)
compatibilityScore(ms) == Compat(contact1Interest(ms), contact2Interest(ms))

(* redFlagKeywords, in the order of Object.entries: each keyword with its category *)
redFlagKeywords ==
    << [category |-> "ex", keyword |-> <<"e", "x">>],
       [category |-> "ex", keyword |-> <<"f", "o", "r", "m", "e", "r">>],
       [category |-> "ex", keyword |-> <<"p", "a", "s", "t", " ", "r", "e", "l", "a", "t", "i", "o", "n", "s", "h", "i", "p">>],
       [category |-> "money", keyword |-> <<"b", "r", "o", "k", "e">>],
       [category |-> "money", keyword |-> <<"m", "o", "n", "e", "y">>],
       [category |-> "money", keyword |-> <<"c", "a", "s", "h">>],
       [category |-> "money", keyword |-> <<"p", "o", "o", "r">>],
       [category |-> "money", keyword |-> <<"r", "i", "c", "h">>],
       [category |-> "blocking", keyword |-> <<"b", "l", "o", "c", "k">>],
       [category |-> "blocking", keyword |-> <<"b", "l", "o", "c", "k", "e", "d">>],
       [category |-> "blocking", keyword |-> <<"i", "g", "n", "o", "r", "e">>],
       [category |-> "blocking", keyword |-> <<"i", "g", "n", "o", "r", "e", "d">>],
       [category |-> "toxic", keyword |-> <<"h", "a", "t", "e">>],
       [category |-> "toxic", keyword |-> <<"s", "t", "u", "p", "i", "d">>],
       [category |-> "toxic", keyword |-> <<"i", "d", "i", "o", "t">>],
       [category |-> "toxic", keyword |-> <<"a", "n", "n", "o", "y", "i", "n", "g">>] >>

(* messages.filter(m => m.message.toLowerCase().includes(keyword)).length *)
keywordCount(ms, keyword) ==
    Len(SelectSeq(ms, LAMBDA m : includesString(toLowerCase(m.message), keyword)))

(* Mutant: ten mentions are already high *)
severityFromTen(count) ==
    IF count >= HighAbove THEN "high" ELSE IF count > MediumAbove THEN "medium" ELSE "low"
(* count > 10 ? 'high' : count > 5 ? 'medium' : 'low' *)
severity(count) ==
    IF count > HighAbove THEN "high" ELSE IF count > MediumAbove THEN "medium" ELSE "low"

(* The entry pushed for a keyword; its message names the keyword and the count *)
flagEntry(kw, count) ==
    [category |-> kw.category, keyword |-> kw.keyword, count |-> count,
     severity |-> severity(count)]

RECURSIVE redFlagsFrom(_, _)
redFlagsFrom(ms, kws) ==
    IF kws = <<>> THEN <<>>
    ELSE LET count == keywordCount(ms, Head(kws).keyword)
         IN  (IF count > 0 THEN <<flagEntry(Head(kws), count)>> ELSE <<>>)
                 \o redFlagsFrom(ms, Tail(kws))

redFlags(ms) == redFlagsFrom(ms, redFlagKeywords)

ContactsOf(s) == [i \in 1..Len(s) |-> s[i].contact]

RECURSIVE IncrAll(_, _)
IncrAll(obj, ks) == IF ks = <<>> THEN obj ELSE IncrAll(Incr(obj, Head(ks)), Tail(ks))

(* { [contact1]: 0, [contact2]: 0 } *)
Zero2(ms) == Obj2(key1(ms), 0, key2(ms), 0)

(* Array.prototype.sort is stable: an element goes after the earlier ones of its time *)
(* Mutant: a message is placed before those of the same timestamp *)
RECURSIVE InsertSortedBeforeEquals(_, _)
InsertSortedBeforeEquals(sorted, m) ==
    IF sorted = <<>> THEN <<m>>
    ELSE IF Head(sorted).timestamp < m.timestamp
         THEN <<Head(sorted)>> \o InsertSortedBeforeEquals(Tail(sorted), m)
         ELSE <<m>> \o sorted

RECURSIVE InsertSorted(_, _)
InsertSorted(sorted, m) ==
    IF sorted = <<>> THEN <<m>>
    ELSE IF Head(sorted).timestamp <= m.timestamp
         THEN <<Head(sorted)>> \o InsertSorted(Tail(sorted), m)
         ELSE <<m>> \o sorted

RECURSIVE SortInto(_, _)
SortInto(sorted, rest) ==
    IF rest = <<>> THEN sorted ELSE SortInto(InsertSorted(sorted, Head(rest)), Tail(rest))

sortedMessages(ms) == SortInto(<<>>, ms)

(* current.timestamp.getTime() - previous.timestamp.getTime(), in seconds *)
Gap(sm, i) == sm[i].timestamp - sm[i - 1].timestamp

(* Mutant: a reply after exactly 24 hours is still a response *)
IsResponseWithinOrAt(sm, i) ==
    /\ sm[i].contact /= sm[i - 1].contact
    /\ Gap(sm, i) <= ResponseWindowMin * SecPerMin

(* The pairs the response-time loop records *)
IsResponse(sm, i) ==
    /\ sm[i].contact /= sm[i - 1].contact
    /\ Gap(sm, i) < ResponseWindowMin * SecPerMin

(* responseTimes[current.contact].push(...) on a contact that is no key of
   responseTimes reads a property of undefined: a TypeError leaves the memo *)
ResponseThrows(ms) ==
    LET sm == sortedMessages(ms)
    IN  \E i \in 2..Len(sm) : IsResponse(sm, i) /\ sm[i].contact \notin {key1(ms), key2(ms)}

RECURSIVE ResponseLoop(_, _, _)
ResponseLoop(sm, i, rt) ==
    IF i > Len(sm) THEN rt
    ELSE ResponseLoop(sm, i + 1,
            IF IsResponse(sm, i) THEN Push(rt, sm[i].contact, Gap(sm, i)) ELSE rt)

responseTimes(ms) == ResponseLoop(sortedMessages(ms), 2, Obj2(key1(ms), <<>>, key2(ms), <<>>))

(* Math.round(sum / length) of gaps in minutes, or 0 *)
AvgMinutes(gaps) == IF Len(gaps) > 0 THEN RoundDiv(SumSeq(gaps), SecPerMin * Len(gaps)) ELSE 0

avgResponseTime(ms) ==
    LET rt == responseTimes(ms)
    IN  Obj2(key1(ms), AvgMinutes(rt[key1(ms)]), key2(ms), AvgMinutes(rt[key2(ms)]))

(* timeDiff > 4 hours since lastMessageTime, which starts at 0 *)
IsStarter(t, lastMessageTime) == t - lastMessageTime > StarterGapHours * SecPerHour

RECURSIVE StarterLoop(_, _, _, _)
StarterLoop(sm, i, lastMessageTime, cs) ==
    IF i > Len(sm) THEN cs
    ELSE StarterLoop(sm, i + 1, sm[i].timestamp,
            IF IsStarter(sm[i].timestamp, lastMessageTime) THEN Incr(cs, sm[i].contact) ELSE cs)

conversationStarters(ms) == StarterLoop(sortedMessages(ms), 1, 0, Zero2(ms))

IsLateNight(m) == getHours(m.timestamp) >= 22 \/ getHours(m.timestamp) < 6
IsEarlyMorning(m) == getHours(m.timestamp) >= 6 /\ getHours(m.timestamp) < 10
IsWeekend(m) == getDay(m.timestamp) = 0 \/ getDay(m.timestamp) = 6

lateNightMessages(ms) == IncrAll(Zero2(ms), ContactsOf(SelectSeq(ms, IsLateNight)))
earlyMorningMessages(ms) == IncrAll(Zero2(ms), ContactsOf(SelectSeq(ms, IsEarlyMorning)))
weekendMessages(ms) == IncrAll(Zero2(ms), ContactsOf(SelectSeq(ms, IsWeekend)))
weekdayMessages(ms) ==
    IncrAll(Zero2(ms), ContactsOf(SelectSeq(ms, LAMBDA m : ~IsWeekend(m))))

(* Mutant: a gap of exactly five minutes counts *)
IsDoubleTextInclusive(sm, i) ==
    /\ sm[i].contact = sm[i - 1].contact
    /\ Gap(sm, i) <= DoubleTextMin * SecPerMin
IsDoubleText(sm, i) ==
    /\ sm[i].contact = sm[i - 1].contact
    /\ Gap(sm, i) < DoubleTextMin * SecPerMin

RECURSIVE DoubleTextLoop(_, _, _)
DoubleTextLoop(sm, i, dt) ==
    IF i > Len(sm) THEN dt
    ELSE DoubleTextLoop(sm, i + 1, IF IsDoubleText(sm, i) THEN Incr(dt, sm[i].contact) ELSE dt)

doubleTextAnalysis(ms) == DoubleTextLoop(sortedMessages(ms), 2, Zero2(ms))

IsCaps(m) == m.message = toUpperCase(m.message) /\ length(m.message) > CapsMinLen

getCommunicationStyle(cm) ==
    [questions |-> RoundDiv(Len(SelectSeq(cm, LAMBDA m : includes(m.message, "?"))) * 100, Len(cm)),
     exclamations |-> RoundDiv(Len(SelectSeq(cm, LAMBDA m : includes(m.message, "!"))) * 100, Len(cm)),
     caps |-> RoundDiv(Len(SelectSeq(cm, IsCaps)) * 100, Len(cm))]

(* Mutant: a message with exclamation marks counts once, however many *)
MessageEnergyOncePerMessage(m) ==
    (IF includes(m.message, "!") THEN 1 ELSE 0) * 2 + (IF IsCaps(m) THEN 1 ELSE 0) * 3
        + CountOf(m.message, EmojiChars) * 1
MessageEnergy(m) ==
    CountOf(m.message, {"!"}) * 2 + (IF IsCaps(m) THEN 1 ELSE 0) * 3
        + CountOf(m.message, EmojiChars) * 1

RECURSIVE EnergyScore(_)
EnergyScore(cm) == IF cm = <<>> THEN 0 ELSE MessageEnergy(Head(cm)) + EnergyScore(Tail(cm))

getEnergyLevel(cm) == IF Len(cm) > 0 THEN RoundDiv(EnergyScore(cm) * 10, Len(cm)) ELSE 0

(* The value of the memo: null for no messages, the returned object otherwise,
   and no value when the body throws *)
(* Mutant: a gap of exactly one day is collected too *)
IsLongGapFromOneDay(sm, i) == Gap(sm, i) >= SecPerDay
(* timeDiff > 1, in days *)
IsLongGap(sm, i) == Gap(sm, i) > SecPerDay

(* Math.round(timeDiff) of a gap in days: the nearest whole number of days, *)
(* halves upwards                                                           *)
RoundDays(g) == (g + SecPerDay \div 2) \div SecPerDay

RECURSIVE GapLoop(_, _, _)
GapLoop(sm, i, gaps) ==
    IF i > Len(sm) THEN gaps
    ELSE GapLoop(sm, i + 1,
            IF IsLongGap(sm, i) THEN Append(gaps, RoundDays(Gap(sm, i))) ELSE gaps)

collectedGaps(ms) == GapLoop(sortedMessages(ms), 2, <<>>)

(* Math.max(...conversationGaps) *)
MaxOf(s) == CHOOSE x \in {s[i] : i \in 1..Len(s)} : \A i \in 1..Len(s) : s[i] <= x

longestGap(gaps) == IF Len(gaps) > 0 THEN MaxOf(gaps) ELSE 0
averageGap(gaps) == IF Len(gaps) > 0 THEN RoundDiv(SumSeq(gaps), Len(gaps)) ELSE 0

conversationGaps(ms) ==
    [longest |-> longestGap(collectedGaps(ms)), average |-> averageGap(collectedGaps(ms))]

positiveWords ==
    { <<"l", "o", "v", "e">>,
      <<"g", "r", "e", "a", "t">>,
      <<"a", "m", "a", "z", "i", "n", "g">>,
      <<"a", "w", "e", "s", "o", "m", "e">>,
      <<"h", "a", "p", "p", "y">>,
      <<"g", "o", "o", "d">>,
      <<"n", "i", "c", "e">>,
      <<"w", "o", "n", "d", "e", "r", "f", "u", "l">>,
      <<"p", "e", "r", "f", "e", "c", "t">>,
      <<"b", "e", "a", "u", "t", "i", "f", "u", "l">>,
      <<"y", "e", "s">>,
      <<"t", "h", "a", "n", "k", "s">>,
      <<"t", "h", "a", "n", "k">>,
      <<"b", "e", "s", "t">>,
      <<"e", "x", "c", "i", "t", "e", "d">>,
      <<"f", "u", "n">> }
negativeWords ==
    { <<"h", "a", "t", "e">>,
      <<"b", "a", "d">>,
      <<"t", "e", "r", "r", "i", "b", "l", "e">>,
      <<"a", "w", "f", "u", "l">>,
      <<"s", "a", "d">>,
      <<"a", "n", "g", "r", "y">>,
      <<"n", "o">>,
      <<"s", "o", "r", "r", "y">>,
      <<"w", "o", "r", "s", "t">>,
      <<"a", "n", "n", "o", "y", "i", "n", "g">>,
      <<"b", "o", "r", "i", "n", "g">>,
      <<"s", "t", "u", "p", "i", "d">>,
      <<"f", "r", "u", "s", "t", "r", "a", "t", "e", "d">>,
      <<"t", "i", "r", "e", "d">> }

(* String.prototype.split(/\s+/): the pieces between runs of white space; *)
(* cur is the piece being read, inRun tells that the last character was    *)
(* white space                                                             *)
RECURSIVE splitWhiteSpace(_, _, _)
splitWhiteSpace(s, cur, inRun) ==
    IF s = <<>> THEN <<cur>>
    ELSE IF Head(s) \in WhiteSpace
         THEN (IF inRun THEN <<>> ELSE <<cur>>) \o splitWhiteSpace(Tail(s), <<>>, TRUE)
         ELSE splitWhiteSpace(Tail(s), cur \o <<Head(s)>>, FALSE)

(* m.message.toLowerCase().split(/\s+/) *)
wordsOf(m) == splitWhiteSpace(toLowerCase(m.message), <<>>, FALSE)

(* Mutant: a message counts once, however many of its words are in the lexicon *)
lexiconMessages(m, lexicon) ==
    IF \E i \in 1..Len(wordsOf(m)) : \E w \in lexicon : includesString(wordsOf(m)[i], w)
    THEN 1 ELSE 0
(* words.filter(word => lexicon.some(w => word.includes(w))).length *)
lexiconWords(m, lexicon) ==
    Len(SelectSeq(wordsOf(m), LAMBDA word : \E w \in lexicon : includesString(word, w)))

RECURSIVE lexiconCount(_, _)
lexiconCount(cm, lexicon) ==
    IF cm = <<>> THEN 0 ELSE lexiconWords(Head(cm), lexicon) + lexiconCount(Tail(cm), lexicon)

getSentimentScore(cm) ==
    LET positiveCount == lexiconCount(cm, positiveWords)
        negativeCount == lexiconCount(cm, negativeWords)
        total == positiveCount + negativeCount
    IN  IF total > 0 THEN RoundDiv(positiveCount * 100, total) ELSE NoHitsScore

(* hourlyActivity / weeklyActivity: the number of messages of each hour of  *)
(* the day (element h + 1 is hour h) and of each day of the week (element   *)
(* d + 1 is day d, Sunday being day 0)                                      *)
hourlyActivity(ms) ==
    [h \in 1..24 |-> Len(SelectSeq(ms, LAMBDA m : getHours(m.timestamp) = h - 1))]
weeklyActivity(ms) ==
    [d \in 1..7 |-> Len(SelectSeq(ms, LAMBDA m : getDay(m.timestamp) = d - 1))]

(* Mutant: the last place of the value *)
lastIndexOf(arr, v) ==
    LET at == {i \in 1..Len(arr) : arr[i] = v}
    IN  (CHOOSE i \in at : \A j \in at : j <= i) - 1
(* Array.prototype.indexOf: the first place of the value, counted from 0 *)
indexOf(arr, v) ==
    LET at == {i \in 1..Len(arr) : arr[i] = v}
    IN  (CHOOSE i \in at : \A j \in at : i <= j) - 1

DayNames ==
    <<"Sunday", "Monday", "Tuesday", "Wednesday", "Thursday", "Friday", "Saturday">>

peakHour(ms) == indexOf(hourlyActivity(ms), MaxOf(hourlyActivity(ms)))
peakDay(ms) == DayNames[indexOf(weeklyActivity(ms), MaxOf(weeklyActivity(ms))) + 1]

(* toDateString(): the calendar day of a timestamp *)
toDateString(t) == t \div SecPerDay

(* dailyMessageCounts.values(): the count of each active day, in the order *)
(* in which the days first appear                                          *)
dailyCounts(ms) ==
    LET days == Distinct([i \in 1..Len(ms) |-> toDateString(ms[i].timestamp)], {})
    IN  [d \in 1..Len(days) |->
            Len(SelectSeq(ms, LAMBDA m : toDateString(m.timestamp) = days[d]))]

RECURSIVE SumSquares(_)
SumSquares(s) == IF s = <<>> THEN 0 ELSE Head(s) * Head(s) + SumSquares(Tail(s))

(* Math.max(0, Math.round(100 - (Math.sqrt(variance) / avgDaily) * weight)) *)
(* in whole numbers.  With n counts of sum S and Q = n * sum(c^2) - S^2,    *)
(* sqrt(variance) / avgDaily is sqrt(Q) / S, and a whole number r is at     *)
(* most the rounded value iff r - 1/2 <= 100 - weight * sqrt(Q) / S, that   *)
(* is iff (2 * weight)^2 * Q <= ((201 - 2r) * S)^2 with 201 - 2r >= 0.      *)
(* The whole numbers of 0..100 that qualify are the ones up to the rounded  *)
(* value, so the greatest of them is their number less one.                 *)
deviationScore(counts, weight) ==
    LET n == Len(counts)
        S == SumSeq(counts)
        Q == n * SumSquares(counts) - S * S
        reached == {r \in 0..100 :
                      (2 * weight) * (2 * weight) * Q <= ((201 - 2 * r) * S) * ((201 - 2 * r) * S)}
    IN  IF reached = {} THEN 0 ELSE Cardinality(reached) - 1

(* Mutant: the relative deviation counts in full *)
consistencyScoreFullWeight(ms) == deviationScore(dailyCounts(ms), 2 * DeviationWeight)
consistencyScore(ms) == deviationScore(dailyCounts(ms), DeviationWeight)

conversationDays(ms) == Len(dailyCounts(ms))

(* The memo's body after its guard: what it returns for a non-empty list *)
analyzeMessages(ms) ==
    IF ResponseThrows(ms) THEN [status |-> "threw"]
    ELSE [status |-> "ok",
          contacts |-> contacts(ms),
          messageCounts |->
              Obj2(key1(ms), Len(contact1Messages(ms)), key2(ms), Len(contact2Messages(ms))),
          interestLevels |->
              Obj2(key1(ms), contact1Interest(ms), key2(ms), contact2Interest(ms)),
          compatibilityScore |-> compatibilityScore(ms),
          totalMessages |-> totalMessages(ms),
          avgMessageLength |->
              Obj2(key1(ms), avgLength(contact1Messages(ms)),
                   key2(ms), avgLength(contact2Messages(ms))),
          avgResponseTime |-> avgResponseTime(ms),
          conversationStarters |-> conversationStarters(ms),
          activityPattern |->
              [lateNight |-> lateNightMessages(ms),
               earlyMorning |-> earlyMorningMessages(ms),
               weekend |-> weekendMessages(ms),
               weekday |-> weekdayMessages(ms)],
          doubleTextAnalysis |-> doubleTextAnalysis(ms),
          communicationStyles |->
              Obj2(key1(ms), getCommunicationStyle(contact1Messages(ms)),
                   key2(ms), getCommunicationStyle(contact2Messages(ms))),
          energyLevels |->
              Obj2(key1(ms), getEnergyLevel(contact1Messages(ms)),
                   key2(ms), getEnergyLevel(contact2Messages(ms))),
          redFlags |-> redFlags(ms),
          conversationDays |-> conversationDays(ms),
          sentimentScores |->
              Obj2(key1(ms), getSentimentScore(contact1Messages(ms)),
                   key2(ms), getSentimentScore(contact2Messages(ms))),
          peakActivity |-> [hour |-> peakHour(ms), day |-> peakDay(ms)],
          conversationGaps |-> conversationGaps(ms),
          consistencyScore |-> consistencyScore(ms)]

(* Mutant: the empty list is analysed like any other *)
analyzeWithoutGuard(ms) ==
    IF Len(ms) = 0 THEN [status |-> "ok", totalMessages |-> 0]
    ELSE analyzeMessages(ms)

analyze(ms) ==
    IF Len(ms) = 0 THEN [status |-> "null"]
    ELSE analyzeMessages(ms)

----------------------------------------------------------------------------
(* FileUpload: the record pattern of reader.onload, as a backtracking match.

   /^\[?(\d{1,2}\/\d{1,2}\/\d{2,4}),?\s*(\d{1,2}:\d{2}(?::\d{2})?(?:\s*[AaPp][Mm])?)\]?\s*-?\s*([^:]+):\s*(.+)$/

   A pattern is a sequence of items. A "rep" item matches between min and
   max characters of a class, greedily, and labels them with its capture
   group (0 for none); an "opt" item is an optional group, tried before it
   is skipped. The match found is the first in the order a backtracking
   matcher tries them, which fixes the captures. *)

Digits == {"0", "1", "2", "3", "4", "5", "9"}
(* . matches no line terminator *)
LineTerminators == {"\n", "\r"}
Alphabet ==
    Digits \cup WhiteSpace \cup {"\n", "/", ",", ":", "-", "[", "]", "A", "P", "M", "a", "b", "m", "p"}

Rep(cls, lo, hi, cap) == [kind |-> "rep", cls |-> cls, lo |-> lo, hi |-> hi, cap |-> cap]
Opt(items) == [kind |-> "opt", items |-> items]
(* The bound of an unbounded quantifier: no input is longer *)
Unbounded == 64

RecordPattern ==
    << Rep({"["}, 0, 1, 0),
       Rep(Digits, 1, 2, 1), Rep({"/"}, 1, 1, 1), Rep(Digits, 1, 2, 1), Rep({"/"}, 1, 1, 1),
       Rep(Digits, 2, 4, 1),
       Rep({","}, 0, 1, 0),
       Rep(WhiteSpace, 0, Unbounded, 0),
       Rep(Digits, 1, 2, 2), Rep({":"}, 1, 1, 2), Rep(Digits, 2, 2, 2),
       Opt(<< Rep({":"}, 1, 1, 2), Rep(Digits, 2, 2, 2) >>),
       Opt(<< Rep(WhiteSpace, 0, Unbounded, 2), Rep({"A", "a", "P", "p"}, 1, 1, 2),
              Rep({"M", "m"}, 1, 1, 2) >>),
       Rep({"]"}, 0, 1, 0),
       Rep(WhiteSpace, 0, Unbounded, 0),
       Rep({"-"}, 0, 1, 0),
       Rep(WhiteSpace, 0, Unbounded, 0),
       Rep(Alphabet \ {":"}, 1, Unbounded, 3),
       Rep({":"}, 1, 1, 0),
       Rep(WhiteSpace, 0, Unbounded, 0),
       Rep(Alphabet \ LineTerminators, 1, Unbounded, 4) >>

NoMatch == [ok |-> FALSE, caps |-> <<>>]

(* The number of characters of s from pos on that are in cls, at most hi *)
RECURSIVE Run(_, _, _, _)
Run(s, pos, cls, hi) ==
    IF hi = 0 \/ pos > Len(s) \/ s[pos] \notin cls THEN 0
    ELSE 1 + Run(s, pos + 1, cls, hi - 1)

RECURSIVE MatchFrom(_, _, _)
RECURSIVE MatchRep(_, _, _, _)

(* Match pat against s from pos to the end of s ($): the labels of the
   characters consumed, or NoMatch *)
MatchFrom(pat, s, pos) ==
    IF pat = <<>> THEN (IF pos = Len(s) + 1 THEN [ok |-> TRUE, caps |-> <<>>] ELSE NoMatch)
    ELSE IF Head(pat).kind = "opt"
    THEN LET taken == MatchFrom(Head(pat).items \o Tail(pat), s, pos)
         IN  IF taken.ok THEN taken ELSE MatchFrom(Tail(pat), s, pos)
    ELSE MatchRep(pat, s, pos, Run(s, pos, Head(pat).cls, Head(pat).hi))

(* The greedy item Head(pat) takes n characters, and fewer when the rest fails *)
MatchRep(pat, s, pos, n) ==
    IF n < Head(pat).lo THEN NoMatch
    ELSE LET rest == MatchFrom(Tail(pat), s, pos + n)
         IN  IF rest.ok
             THEN [ok |-> TRUE, caps |-> [i \in 1..n |-> Head(pat).cap] \o rest.caps]
             ELSE MatchRep(pat, s, pos, n - 1)

(* line.match(...) *)
match(line) == MatchFrom(RecordPattern, line, 1)

(* The text of capture group g *)
Group(line, caps, g) ==
    LET idx == {i \in 1..Len(line) : caps[i] = g}
    IN  IF idx = {} THEN <<>>
        ELSE SubSeq(line, CHOOSE i \in idx : \A j \in idx : i <= j,
                          CHOOSE i \in idx : \A j \in idx : i >= j)

(* String.prototype.trim *)
RECURSIVE trimStart(_)
trimStart(s) == IF s /= <<>> /\ Head(s) \in WhiteSpace \cup {"\n"} THEN trimStart(Tail(s)) ELSE s
RECURSIVE trimEnd(_)
trimEnd(s) ==
    IF s /= <<>> /\ s[Len(s)] \in WhiteSpace \cup {"\n"}
    THEN trimEnd(SubSeq(s, 1, Len(s) - 1)) ELSE s
trim(s) == trimEnd(trimStart(s))

(* String.prototype.split on a one-character separator *)
RECURSIVE SplitOn(_, _, _)
SplitOn(s, sep, cur) ==
    IF s = <<>> THEN <<cur>>
    ELSE IF Head(s) = sep THEN <<cur>> \o SplitOn(Tail(s), sep, <<>>)
    ELSE SplitOn(Tail(s), sep, Append(cur, Head(s)))

(* content.split('\n').filter(line => line.trim()) *)
lines(content) == SelectSeq(SplitOn(content, "\n", <<>>), LAMBDA l : trim(l) /= <<>>)

(* new Date(`${date} ${time}`) as V8 reads the well-formed tokens of the
   inputs: month/day/year, a two-digit year below 50 in 2000-2049, hours and
   minutes with optional seconds and an optional am/pm marker. *)
DigitVal ==
    [c \in Digits |->
        CASE c = "0" -> 0 [] c = "1" -> 1 [] c = "2" -> 2 [] c = "3" -> 3
          [] c = "4" -> 4 [] c = "5" -> 5 [] c = "9" -> 9]

RECURSIVE ToInt(_)
ToInt(s) == IF s = <<>> THEN 0 ELSE ToInt(SubSeq(s, 1, Len(s) - 1)) * 10 + DigitVal[s[Len(s)]]

(* Days from 1 January 1970 to the civil date y-m-d *)
DaysFromCivil(y, m, d) ==
    LET yy == IF m <= 2 THEN y - 1 ELSE y
        era == yy \div 400
        yoe == yy - era * 400
        mp == (m + 9) % 12
        doy == (153 * mp + 2) \div 5 + d - 1
        doe == yoe * 365 + yoe \div 4 - yoe \div 100 + doy
    IN  era * 146097 + doe - 719468

DateParse(date, time) ==
    LET dmy == SplitOn(date, "/", <<>>)
        yr == ToInt(dmy[3])
        year == IF Len(dmy[3]) > 2 THEN yr ELSE IF yr < 50 THEN 2000 + yr ELSE 1900 + yr
        hms == SplitOn(SelectSeq(time, LAMBDA c : c \in Digits \cup {":"}), ":", <<>>)
        pm == \E k \in 1..Len(time) : time[k] \in {"P", "p"}
        am == \E k \in 1..Len(time) : time[k] \in {"A", "a"}
        h == ToInt(hms[1])
        hour == IF pm /\ h < 12 THEN h + 12 ELSE IF am /\ h = 12 THEN 0 ELSE h
        sec == IF Len(hms) > 2 THEN ToInt(hms[3]) ELSE 0
    IN  DaysFromCivil(year, ToInt(dmy[1]), ToInt(dmy[2])) * SecPerDay
            + hour * SecPerHour + ToInt(hms[2]) * SecPerMin + sec

(* The record pushed for a matching line *)
Record(line, caps) ==
    [date |-> Group(line, caps, 1),
     time |-> Group(line, caps, 2),
     contact |-> trim(Group(line, caps, 3)),
     message |-> trim(Group(line, caps, 4)),
     timestamp |-> DateParse(Group(line, caps, 1), Group(line, caps, 2))]

(* Mutant: the first line that is no record ends the parse *)
RECURSIVE PushMatchesUntilMismatch(_)
PushMatchesUntilMismatch(ls) ==
    IF ls = <<>> THEN <<>>
    ELSE LET m == match(Head(ls))
         IN  IF m.ok THEN <<Record(Head(ls), m.caps)>> \o PushMatchesUntilMismatch(Tail(ls))
             ELSE <<>>

(* lines.forEach(line => { if (match) messages.push(...) }) *)
RECURSIVE PushMatches(_)
PushMatches(ls) ==
    IF ls = <<>> THEN <<>>
    ELSE LET m == match(Head(ls))
         IN  (IF m.ok THEN <<Record(Head(ls), m.caps)>> ELSE <<>>) \o PushMatches(Tail(ls))

parsedMessages(content) == PushMatches(lines(content))

(* Mutant: the empty list is not rejected *)
NeverNoMessagesFound(msgs) == FALSE
(* if (messages.length === 0) throw new Error('No valid WhatsApp messages found') *)
NoMessagesFound(msgs) == Len(msgs) = 0

----------------------------------------------------------------------------
(* The analysed inputs: every sequence of at most MaxMsgs messages drawn
   from a universe that varies the sender and the time of a plain message,
   and the text of a message of fixed time. *)

ContactNames == {<<"a">>, <<"b">>, UndefinedKey}

(* 2 January 2024 (a Tuesday), 10:00 *)
Base == 19724 * SecPerDay + 10 * SecPerHour

Times ==
    { SecPerHour,                                  \* 1 January 1970, 01:00
      Base,
      Base + 2 * SecPerMin,
      Base + 5 * SecPerMin,
      Base + 4 * SecPerHour + 2 * SecPerMin,
      Base + SecPerDay + 2 * SecPerMin }

Plain == <<"h", "i">>
Texts == { Plain, <<"W", "O", "W", "!", "!">>, <<"o", "k", "?">> }

Message(c, t, x) == [contact |-> c, timestamp |-> t, message |-> x]

(* The contact named "undefined", who is also the third contact of a chat, *)
(* writes within minutes of the others or a day later                      *)
LateTimes == { Base + 2 * SecPerMin, Base + SecPerDay + 2 * SecPerMin }

MessageUniverse ==
    {Message(c, t, Plain) : c \in ContactNames \ {UndefinedKey}, t \in Times}
        \cup {Message(UndefinedKey, t, Plain) : t \in LateTimes}
        \cup {Message(c, Base, x) : c \in ContactNames \ {UndefinedKey}, x \in Texts}

RECURSIVE SeqsUpTo(_, _)
SeqsUpTo(S, n) ==
    IF n = 0 THEN {<<>>}
    ELSE LET shorter == SeqsUpTo(S, n - 1)
         IN  shorter \cup {Append(s, e) : s \in {q \in shorter : Len(q) = n - 1}, e \in S}

----------------------------------------------------------------------------
(* The page: Index, FileUpload and ChatAnalysis *)

Null == [null |-> TRUE, list |-> <<>>]
List(msgs) == [null |-> FALSE, list |-> msgs]

NoToast == [kind |-> "none", count |-> 0]

(* What ChatAnalysis holds once Index has rendered with chat data cd *)
Rendered(cd) == IF cd.null THEN [status |-> "unmounted"] ELSE analyze(cd.list)

(* A throw while rendering unmounts the whole tree: no handler is left *)
Alive == analysis.status /= "threw"

(* FileUpload is rendered while chatData is null *)
UploadMounted == Alive /\ chatData.null

(* processWhatsAppFile(file): setIsProcessing(true); reader.readAsText(file) *)
processWhatsAppFile(content) ==
    /\ isProcessing' = TRUE
    /\ reads' = reads \cup {[id |-> submitted + 1, content |-> content, inst |-> inst]}
    /\ submitted' = submitted + 1
    /\ UNCHANGED <<chatData, analysis, inst, toast>>

(* handleDrop: the drop zone stays rendered while a file is processed *)
HandleDrop(files, max) ==
    /\ UploadMounted
    /\ submitted < max
    /\ \E content \in files : processWhatsAppFile(content)

(* handleFileSelect: the file input is rendered only while !isProcessing *)
HandleFileSelect(files, max) ==
    /\ UploadMounted
    /\ ~isProcessing
    /\ submitted < max
    /\ \E content \in files : processWhatsAppFile(content)

(* onFileProcessed(messages): Index.handleFileProcessed, setChatData(messages) *)
handleFileProcessed(msgs) == List(msgs)

(* reader.onload of read r: parse, toast, deliver; finally setIsProcessing(false),
   which acts on the instance that started the read if it is still mounted *)
OnLoad(r) ==
    LET msgs == parsedMessages(r.content)
        failed == NoMessagesFound(msgs)
        cd == IF failed \/ ~Alive THEN chatData ELSE handleFileProcessed(msgs)
    IN  /\ r \in reads
        /\ reads' = reads \ {r}
        /\ toast' = IF failed THEN [kind |-> "error", count |-> 0]
                    ELSE [kind |-> "success", count |-> Len(msgs)]
        /\ chatData' = cd
        /\ analysis' = IF Alive THEN Rendered(cd) ELSE analysis
        /\ isProcessing' = IF cd.null /\ r.inst /= inst THEN isProcessing ELSE FALSE
        /\ UNCHANGED <<inst, submitted>>

ReadComplete == \E r \in reads : OnLoad(r)

(* The read fails: reader.onerror is not set, so nothing runs *)
ReadError ==
    \E r \in reads :
        /\ reads' = reads \ {r}
        /\ UNCHANGED <<chatData, analysis, isProcessing, inst, toast, submitted>>

(* Mutant: the reset stores an empty list, which Index takes for chat data *)
handleResetToEmptyList ==
    /\ Alive
    /\ ~chatData.null
    /\ analysis.status /= "pending"
    /\ chatData' = List(<<>>)
    /\ analysis' = Rendered(List(<<>>))
    /\ isProcessing' = FALSE
    /\ inst' = inst + 1
    /\ UNCHANGED <<reads, toast, submitted>>

(* The "Upload new chat" button: handleReset, setChatData(null); a new
   FileUpload instance mounts with isProcessing false *)
handleReset ==
    /\ Alive
    /\ ~chatData.null
    /\ analysis.status /= "pending"
    /\ chatData' = Null
    /\ analysis' = Rendered(Null)
    /\ isProcessing' = FALSE
    /\ inst' = inst + 1
    /\ UNCHANGED <<reads, toast, submitted>>

(* ChatAnalysis renders for the first time: the memo body runs on the messages prop *)
Analyze ==
    /\ ~chatData.null
    /\ analysis.status = "pending"
    /\ analysis' = analyze(chatData.list)
    /\ UNCHANGED <<chatData, isProcessing, inst, reads, toast, submitted>>

----------------------------------------------------------------------------
(* The files submitted *)

MaxSubmits == 2
MaxTail == 4

RECURSIVE Join(_)
Join(ls) ==
    IF ls = <<>> THEN <<>>
    ELSE IF Len(ls) = 1 THEN Head(ls)
    ELSE Head(ls) \o <<"\n">> \o Join(Tail(ls))

Head1 == <<"1", "/", "2", "/", "2", "4", ",", " ", "1", "0", ":", "0", "0">>
Head2 ==
    <<"[", "1", "/", "2", "/", "2", "4", ",", " ", "9", ":", "0", "5", ":", "3", "0", " ",
      "P", "M", "]">>
DateOnly == <<"1", "/", "2", "/", "2", "4">>

GoodA == Head1 \o <<" ", "-", " ", "a", ":", " ", "b">>
GoodB == Head2 \o <<" ", "b", ":", " ", "a", "b">>
(* A third sender, at the time of GoodA *)
GoodM == Head1 \o <<" ", "-", " ", "m", ":", " ", "a">>
Junk == <<"a", "b">>
Blank == <<" ">>

(* Files of whole lines: the empty file, files without a record line (blank,
   not a record, a record ended by a carriage return), files with one or two
   senders, with a dropped line, and with three senders *)
PageFiles ==
    { <<>>,
      Blank,
      Join(<<Junk, Blank>>),
      GoodA \o <<"\r">>,
      GoodA,
      Join(<<GoodA, GoodB>>),
      Join(<<Junk, GoodB, Blank>>),
      Join(<<GoodA, GoodB, GoodM>>) }

(* One record head, or none, followed by every text of at most MaxTail characters *)
ParseFiles ==
    {h \o t : h \in {Head1, Head2, DateOnly, <<>>},
              t \in SeqsUpTo({" ", "-", ":", "a", "\r", "\n"}, MaxTail)}

----------------------------------------------------------------------------
(* Specifications *)

PageInit ==
    /\ chatData = Null
    /\ analysis = [status |-> "unmounted"]
    /\ isProcessing = FALSE
    /\ inst = 1
    /\ reads = {}
    /\ toast = NoToast
    /\ submitted = 0

(* The page, with files of whole lines *)
Init == PageInit

Next ==
    \/ HandleDrop(PageFiles, MaxSubmits)
    \/ HandleFileSelect(PageFiles, MaxSubmits)
    \/ ReadComplete
    \/ ReadError
    \/ handleReset

Spec == Init /\ [][Next]_vars

(* The page, when every read that was started ends, by an error or by a load *)
SpecLive == Init /\ [][Next]_vars /\ WF_vars(ReadError \/ ReadComplete)

(* The parser: one file, of arbitrary text or of whole lines, is submitted and read *)
ParseNext ==
    \/ HandleDrop(ParseFiles \cup PageFiles, 1)
    \/ HandleFileSelect(ParseFiles \cup PageFiles, 1)
    \/ ReadComplete

SpecParse == PageInit /\ [][ParseNext]_vars

(* The analytics: ChatAnalysis is given a message list *)
AInit ==
    /\ chatData \in {List(ms) : ms \in SeqsUpTo(MessageUniverse, MaxMsgs)}
    /\ analysis = [status |-> "pending"]
    /\ isProcessing = FALSE
    /\ inst = 1
    /\ reads = {}
    /\ toast = NoToast
    /\ submitted = 0

ANext == Analyze

SpecAnalyze == AInit /\ [][ANext]_vars

(***************************************************************************)
(* The analysis of expressive chats: up to MaxTexts messages of two        *)
(* contacts, with exclamation marks, emoji (one of them outside the ranges *)
(* the analysis recognises) and upper-case texts.                          *)
(***************************************************************************)
MaxTexts == 4

Cheer == <<"y", "a", "y", "!", "!", "!", "U+1F600">>
Shout == <<"H", "E", "Y", "!", "!", "!", "U+1F929">>
Okay == <<"O", "K", "A", "Y">>
ExpressiveTexts == {Cheer, Shout, Plain, Okay}

ExpressiveMessages == {Message(c, Base, x) : c \in {<<"a">>, <<"b">>}, x \in ExpressiveTexts}

TInit ==
    /\ chatData \in {List(ms) : ms \in SeqsUpTo(ExpressiveMessages, MaxTexts)}
    /\ analysis = [status |-> "pending"]
    /\ isProcessing = FALSE
    /\ inst = 1
    /\ reads = {}
    /\ toast = NoToast
    /\ submitted = 0

TNext == Analyze

SpecTexts == TInit /\ [][TNext]_vars

(***************************************************************************)
(* The analysis of chats with words of the sentiment lexicons: up to       *)
(* MaxMsgs messages, with a word inside another ("know" holds "no"), upper *)
(* case, two spaces in a row and a word of both lexicons; the contact      *)
(* named "undefined" takes part.                                           *)
(***************************************************************************)
LoveYou == <<"l", "o", "v", "e", " ", "y", "o", "u">>
IKnow == <<"i", " ", "k", "n", "o", "w">>
GoodNice == <<"G", "O", "O", "D", " ", " ", "n", "i", "c", "e">>
NoThanks == <<"n", "o", "t", "h", "a", "n", "k", "s">>
SentimentTexts == {Plain, LoveYou, IKnow, GoodNice, NoThanks}

SentimentMessages ==
    {Message(c, Base, x) : c \in ContactNames \ {UndefinedKey}, x \in SentimentTexts}
        \cup {Message(UndefinedKey, Base, x) : x \in {Plain, LoveYou}}

SInit ==
    /\ chatData \in {List(ms) : ms \in SeqsUpTo(SentimentMessages, MaxMsgs)}
    /\ analysis = [status |-> "pending"]
    /\ isProcessing = FALSE
    /\ inst = 1
    /\ reads = {}
    /\ toast = NoToast
    /\ submitted = 0

SNext == Analyze

SpecSentiment == SInit /\ [][SNext]_vars

(***************************************************************************)
(* The analysis of long chats: up to MaxRepeat quiet days of one message   *)
(* each, two days apart, then a busy day made of a few texts, each sent up *)
(* to MaxRepeat times, the two contacts taking turns a minute apart.       *)
(***************************************************************************)
MaxRepeat == 11

Blocked == <<"b", "l", "o", "c", "k", "e", "d">>
HateHate == <<"H", "a", "t", "e", " ", "h", "a", "t", "e">>
RichEx == <<"m", "y", " ", "e", "x", " ", "i", "s", " ", "r", "i", "c", "h">>

Copies(x, n) == [i \in 1..n |-> x]

QuietDays(d) == [j \in 1..d |-> Message(<<"a">>, Base - 2 * (d + 1 - j) * SecPerDay, Plain)]

Conversation(xs) ==
    [i \in 1..Len(xs) |->
        Message(IF i % 2 = 1 THEN <<"a">> ELSE <<"b">>, Base + i * SecPerMin, xs[i])]

LongChats ==
    {QuietDays(d) \o
       Conversation(<<Plain>> \o Copies(Blocked, n1) \o Copies(HateHate, n2) \o Copies(RichEx, n3)) :
        d \in {0, 1, MaxRepeat}, n1 \in 0..MaxRepeat, n2 \in 0..MaxRepeat, n3 \in 0..1}

FInit ==
    /\ chatData \in {List(ms) : ms \in LongChats}
    /\ analysis = [status |-> "pending"]
    /\ isProcessing = FALSE
    /\ inst = 1
    /\ reads = {}
    /\ toast = NoToast
    /\ submitted = 0

FNext == Analyze

SpecFlags == FInit /\ [][FNext]_vars

----------------------------------------------------------------------------
(* Properties of the analytics, under SpecAnalyze *)

Ok == analysis.status = "ok"
ms0 == chatData.list
k1 == key1(ms0)
k2 == key2(ms0)

RECURSIVE SumOver(_, _)
SumOver(obj, ks) ==
    IF ks = {} THEN 0
    ELSE LET k == CHOOSE x \in ks : TRUE IN obj[k] + SumOver(obj, ks \ {k})
SumVals(obj) == SumOver(obj, DOMAIN obj)

(* The two keys of the result are distinct: two distinct contacts, or one
   contact that is not called "undefined" *)
AtMostTwoContacts ==
    \/ Len(contacts(ms0)) = 2
    \/ Len(contacts(ms0)) = 1 /\ contact1(ms0) /= UndefinedKey

(* C1, as stated: for every non-empty message sequence, whatever the number
   of distinct contacts, the values of messageCounts sum to totalMessages. *)
C1_CountsSumToTotal_AnyContacts ==
    Ok => SumVals(analysis.messageCounts) = analysis.totalMessages

(* C1, amended: for every non-empty message sequence with exactly two
   distinct contacts, or with one contact not named "undefined", the values
   of messageCounts sum to totalMessages, the length of the input. *)
C1_CountsSumToTotal ==
    (Ok /\ AtMostTwoContacts) =>
        /\ analysis.totalMessages = Len(ms0)
        /\ SumVals(analysis.messageCounts) = analysis.totalMessages

C1_Witness == Ok /\ Len(contacts(ms0)) = 2 /\ Len(ms0) = MaxMsgs

(* The per-contact counters of the result *)
Counters ==
    << analysis.conversationStarters, analysis.doubleTextAnalysis,
       analysis.activityPattern.lateNight, analysis.activityPattern.earlyMorning,
       analysis.activityPattern.weekend, analysis.activityPattern.weekday >>

(* C2: for every non-empty message sequence the analysis returns a result
   without raising, and messages of a contact other than the first two are
   ignored by the per-contact counters: no counter is NaN and no counter is
   kept for another contact. *)
C2_NeverFails ==
    /\ analysis.status /= "threw"
    /\ Ok => \A n \in 1..Len(Counters) :
                /\ DOMAIN Counters[n] = {k1, k2}
                /\ \A k \in DOMAIN Counters[n] : Counters[n][k] /= NaN

(* C3, as stated: when the two contacts have sent the same number of
   messages, each interest level is 50 and the compatibility score is 100. *)
EqualCounts ==
    /\ Len(contacts(ms0)) = 2
    /\ Len(contact1Messages(ms0)) = Len(contact2Messages(ms0))

C3_EqualCountsScore100 ==
    (Ok /\ EqualCounts) =>
        /\ analysis.interestLevels[k1] = 50
        /\ analysis.interestLevels[k2] = 50
        /\ analysis.compatibilityScore = 100

(* C3, amended: when the two contacts have sent the same number of messages,
   each interest level is 50 and the compatibility score is 75. *)
C3_EqualCountsScore75 ==
    (Ok /\ EqualCounts) =>
        /\ analysis.interestLevels[k1] = 50
        /\ analysis.interestLevels[k2] = 50
        /\ analysis.compatibilityScore = 75

C3_Witness == Ok /\ EqualCounts /\ Len(ms0) = 2

(* C4: the compatibility score is an integer from 0 to 100, and it is 100
   only when both interest levels are 50. *)
C4_CompatibilityRange ==
    Ok =>
        /\ analysis.compatibilityScore \in 0..100
        /\ analysis.compatibilityScore = 100 =>
              contact1Interest(ms0) = 50 /\ contact2Interest(ms0) = 50

C4_Witness == Ok /\ analysis.compatibilityScore = 75 /\ Len(contacts(ms0)) = 2

(* C5: when a contact has no messages, its average message length, its
   question, exclamation and all-caps percentages, its energy level and its
   interest level are all 0. *)
C5_EmptyContactMetricsZero ==
    (Ok /\ contact2Messages(ms0) = <<>>) =>
        /\ analysis.avgMessageLength[k2] = 0
        /\ analysis.communicationStyles[k2].questions = 0
        /\ analysis.communicationStyles[k2].exclamations = 0
        /\ analysis.communicationStyles[k2].caps = 0
        /\ analysis.energyLevels[k2] = 0
        /\ analysis.interestLevels[k2] = 0

(* C7, as stated: for every non-empty message sequence the two interest
   levels sum to 99, 100 or 101. *)
C7_InterestSum_AnyContacts == Ok => SumVals(analysis.interestLevels) \in {99, 100, 101}

(* C7, amended: for every non-empty message sequence with exactly two
   distinct contacts, or with one contact not named "undefined", the two
   interest levels sum to 99, 100 or 101. *)
C7_InterestSum ==
    (Ok /\ AtMostTwoContacts) =>
        analysis.interestLevels[k1] + analysis.interestLevels[k2] \in {99, 100, 101}

C7_Witness ==
    /\ Ok
    /\ Len(contacts(ms0)) = 2
    /\ analysis.interestLevels[k1] = 67
    /\ analysis.interestLevels[k2] = 33

(* The positions of the chronological sequence that start a conversation:
   the first one, and each one more than 4 hours after its predecessor *)
StarterPositions(c) ==
    LET sm == sortedMessages(ms0)
    IN  {i \in 1..Len(sm) :
            /\ sm[i].contact = c
            /\ i = 1 \/ sm[i].timestamp - sm[i - 1].timestamp > 4 * 3600}

(* C9: a message counts as a conversation starter of its sender exactly when
   it comes more than 4 hours after the message before it, and the first
   message of the transcript always counts, whatever its timestamp. *)
C9_StartersCounted ==
    Ok => \A c \in {k1, k2} :
              analysis.conversationStarters[c] = Cardinality(StarterPositions(c))

(* The chronologically consecutive pairs of one sender under 5 minutes apart *)
DoublePositions(c) ==
    LET sm == sortedMessages(ms0)
    IN  {i \in 2..Len(sm) :
            /\ sm[i].contact = c
            /\ sm[i - 1].contact = c
            /\ sm[i].timestamp - sm[i - 1].timestamp < 5 * 60}

(* C10: the double-text count of each of the two contacts is the number of
   chronologically consecutive pairs of its messages less than 5 minutes
   apart; pairs of different senders and pairs 5 minutes or more apart add
   nothing. *)
C10_DoubleTexts ==
    Ok => \A c \in {k1, k2} :
              analysis.doubleTextAnalysis[c] = Cardinality(DoublePositions(c))

(* A pair 2 minutes apart is counted and a pair exactly 5 minutes apart is not *)
C10_Witness ==
    /\ Ok
    /\ analysis.doubleTextAnalysis[k1] = 1
    /\ LET sm == sortedMessages(ms0)
       IN  \E i \in 2..Len(sm) :
              /\ sm[i].contact = k1
              /\ sm[i - 1].contact = k1
              /\ sm[i].timestamp - sm[i - 1].timestamp = 5 * 60

----------------------------------------------------------------------------
(* Properties of the parser and the page *)

(* No line of the text matches the record pattern *)
NoLineMatches(content) ==
    LET ls == SplitOn(content, "\n", <<>>)
    IN  \A i \in 1..Len(ls) : ~match(ls[i]).ok

(* C6: when no line of a file matches the record pattern, the read ends with
   the error toast, onFileProcessed is not called and the stored chat data is
   left as it was. *)
C6_NoMatchNoDelivery ==
    [][\A r \in reads :
          (OnLoad(r) /\ NoLineMatches(r.content)) =>
              /\ chatData' = chatData
              /\ analysis' = analysis
              /\ toast'.kind = "error"]_vars

(* A file without a matching line was read while chat data of an earlier
   file was shown, and the data stayed *)
C6_Witness == toast.kind = "error" /\ ~chatData.null /\ reads = {}

(* C8: every message the parser produces has a non-empty contact and a
   non-empty text, after trimming. *)
C8_FieldsNonEmpty ==
    \A i \in 1..Len(chatData.list) :
        /\ chatData.list[i].contact /= <<>>
        /\ chatData.list[i].message /= <<>>

(***************************************************************************)
(* C11  The red-flag list has exactly one entry for every keyword that at  *)
(* least one message mentions and none for the other keywords; the entry   *)
(* carries the keyword's category, and its severity is high above 10       *)
(* mentions, medium from 6 to 10 and low from 1 to 5.                      *)
(***************************************************************************)
Keywords == {redFlagKeywords[i] : i \in 1..Len(redFlagKeywords)}

EntriesFor(kw) ==
    {i \in 1..Len(analysis.redFlags) : analysis.redFlags[i].keyword = kw.keyword}

(* The messages of the chat that mention the keyword, whatever the case *)
Mentioning(kw) ==
    {i \in 1..Len(ms0) : \E j \in 1..(Len(ms0[i].message) - Len(kw) + 1) :
        toLowerCase(SubSeq(ms0[i].message, j, j + Len(kw) - 1)) = kw}

C11_RedFlagEntries ==
    Ok => \A kw \in Keywords :
            LET n == Cardinality(Mentioning(kw.keyword))
            IN  /\ Cardinality(EntriesFor(kw)) = (IF n > 0 THEN 1 ELSE 0)
                /\ \A i \in EntriesFor(kw) :
                      /\ analysis.redFlags[i].category = kw.category
                      /\ analysis.redFlags[i].count = n
                      /\ n > 10 => analysis.redFlags[i].severity = "high"
                      /\ (n > 5 /\ n <= 10) => analysis.redFlags[i].severity = "medium"
                      /\ (n >= 1 /\ n <= 5) => analysis.redFlags[i].severity = "low"

C11_Witness ==
    /\ Ok
    /\ \E i, j, k \in 1..Len(analysis.redFlags) :
          /\ analysis.redFlags[i].severity = "high"
          /\ analysis.redFlags[j].severity = "medium" /\ analysis.redFlags[j].count = 10
          /\ analysis.redFlags[k].severity = "low"
    /\ \E kw \in Keywords : EntriesFor(kw) = {}

(***************************************************************************)
(* C12  The consistency score of a chat is a whole number from 0 to 100:   *)
(* it is max(0, round(100 - (stddev / mean) * 50)) over the message counts *)
(* of the active days, whose mean is positive.                             *)
(***************************************************************************)
ActiveDays == {ms0[i].timestamp \div 86400 : i \in 1..Len(ms0)}
CountOn(d) == Cardinality({i \in 1..Len(ms0) : ms0[i].timestamp \div 86400 = d})

(* n^2 times the variance of the daily counts, with n the number of days *)
ScaledVariance ==
    Cardinality(ActiveDays) * SumOver([d \in ActiveDays |-> CountOn(d) * CountOn(d)], ActiveDays)
        - Len(ms0) * Len(ms0)

(* x <= 100 - 50 * stddev / mean, for x = h / 2 *)
HalvesAtMostScore(h) ==
    /\ 200 - h >= 0
    /\ 10000 * ScaledVariance <= ((200 - h) * Len(ms0)) * ((200 - h) * Len(ms0))

C12_ConsistencyScore ==
    Ok => LET score == analysis.consistencyScore
          IN  /\ score \in 0..100
              /\ \A d \in ActiveDays : CountOn(d) >= 1
              /\ Len(ms0) > 0 /\ Cardinality(ActiveDays) > 0
              /\ score > 0 => HalvesAtMostScore(2 * score - 1)
              /\ ~HalvesAtMostScore(2 * score + 1)

(* The deviation is more than twice the mean: the score would be negative *)
C12_Witness ==
    Ok /\ analysis.consistencyScore = 0 /\ ~HalvesAtMostScore(-1)

(***************************************************************************)
(* C14  When every message of one contact contains "!!!" and an emoji and  *)
(* the other contact has as many messages, none with "!" or an emoji, the  *)
(* energy level of the first is strictly greater than that of the second,  *)
(* even when the second writes in upper case only.                         *)
(***************************************************************************)
AnyEmoji == EmojiChars \cup AstralChars

TextsOf(c) == {ms0[i].message : i \in {j \in 1..Len(ms0) : ms0[j].contact = c}}
CountFrom(c) == Cardinality({j \in 1..Len(ms0) : ms0[j].contact = c})

HasTripleBang(x) == \E i \in 1..(Len(x) - 2) : x[i] = "!" /\ x[i + 1] = "!" /\ x[i + 2] = "!"
HasEmoji(x) == \E i \in 1..Len(x) : x[i] \in AnyEmoji
HasBang(x) == \E i \in 1..Len(x) : x[i] = "!"

LoudAndPlain(A, B) ==
    /\ A /= B
    /\ CountFrom(A) > 0
    /\ CountFrom(A) = CountFrom(B)
    /\ \A x \in TextsOf(A) : HasTripleBang(x) /\ HasEmoji(x)
    /\ \A x \in TextsOf(B) : ~HasBang(x) /\ ~HasEmoji(x)

C14_LoudBeatsPlain ==
    Ok => \A A, B \in {k1, k2} :
            LoudAndPlain(A, B) => analysis.energyLevels[A] > analysis.energyLevels[B]

(* Two messages each; the plain contact writes in upper case only *)
C14_Witness ==
    /\ Ok
    /\ \E A, B \in {k1, k2} :
          /\ LoudAndPlain(A, B)
          /\ CountFrom(A) = 2
          /\ TextsOf(B) = {Okay}
          /\ analysis.energyLevels[B] = 30

(***************************************************************************)
(* C15  The analysis of an empty list of messages is null: nothing fails   *)
(* and no metric is computed.                                              *)
(***************************************************************************)
C15_EmptyIsNull ==
    (analysis.status /= "pending" /\ ms0 = <<>>) =>
        /\ analysis.status = "null"
        /\ DOMAIN analysis = {"status"}

C15_Witness == ~chatData.null /\ ms0 = <<>> /\ analysis.status = "null"

(***************************************************************************)
(* C16  The count reported for a red-flag keyword is the number of its     *)
(* occurrences, whatever the case, in all the messages: a message that     *)
(* contains the keyword k times contributes k.                             *)
(***************************************************************************)
OccurrencesIn(i, kw) == Cardinality(Occurrences(toLowerCase(ms0[i].message), kw))

TotalOccurrences(kw) ==
    SumOver([i \in 1..Len(ms0) |-> OccurrencesIn(i, kw)], 1..Len(ms0))

C16_CountsOccurrences ==
    Ok => \A kw \in Keywords :
            /\ \A i \in EntriesFor(kw) :
                  analysis.redFlags[i].count = TotalOccurrences(kw.keyword)
            /\ EntriesFor(kw) = {} => TotalOccurrences(kw.keyword) = 0

(***************************************************************************)
(* C17  The average response time of a contact is the rounded mean, in     *)
(* minutes, of the gaps of exactly those chronologically consecutive pairs *)
(* of messages that come from different contacts, are less than 24 hours   *)
(* apart and end with a message of that contact; it is 0 when there is no  *)
(* such pair.                                                              *)
(***************************************************************************)
Chrono == sortedMessages(ms0)

ResponsePairs(c) ==
    {i \in 2..Len(Chrono) :
        /\ Chrono[i].contact = c
        /\ Chrono[i - 1].contact /= c
        /\ Chrono[i].timestamp - Chrono[i - 1].timestamp < 24 * 3600}

(* The sum, in seconds, of the gaps of the pairs *)
GapSeconds(pairs) ==
    SumOver([i \in pairs |-> Chrono[i].timestamp - Chrono[i - 1].timestamp], pairs)

(* r is the mean of the gaps in minutes, rounded halves upwards *)
IsRoundedMeanMinutes(r, pairs) ==
    LET n == Cardinality(pairs)
    IN  /\ (2 * r - 1) * 60 * n <= 2 * GapSeconds(pairs)
        /\ 2 * GapSeconds(pairs) < (2 * r + 1) * 60 * n

TimestampsOf(ms) == {ms[i].timestamp : i \in 1..Len(ms)}
At(ms, t) == SelectSeq(ms, LAMBDA m : m.timestamp = t)

IsSortedCopy(sm, ms) ==
    /\ Len(sm) = Len(ms)
    /\ \A i \in 1..(Len(sm) - 1) : sm[i].timestamp <= sm[i + 1].timestamp
    /\ \A t \in TimestampsOf(ms) \cup TimestampsOf(sm) : At(sm, t) = At(ms, t)

C18_SortedCopy ==
    [][(analysis.status = "pending" /\ analysis'.status /= "pending") =>
          /\ IsSortedCopy(sortedMessages(chatData.list), chatData.list)
          /\ chatData' = chatData]_vars

(* An analysed chat that was not in order and has two different messages of *)
(* the same timestamp                                                       *)
C18_Witness ==
    /\ analysis.status = "ok"
    /\ Chrono /= ms0
    /\ \E i, j \in 1..Len(ms0) :
          i < j /\ ms0[i].timestamp = ms0[j].timestamp /\ ms0[i] /= ms0[j]

(***************************************************************************)
(* C19  The parser looks at each physical line on its own: when at least   *)
(* one line of the file is a record, the messages delivered are one per    *)
(* record line, in the order of the lines; the other lines, blank or not,  *)
(* are dropped without an error and without effect on the record lines.    *)
(***************************************************************************)
PhysicalLines(content) == SplitOn(content, "\n", <<>>)

RecordLines(content) == SelectSeq(PhysicalLines(content), LAMBDA l : match(l).ok)

OnePerRecordLine(content) ==
    [k \in 1..Len(RecordLines(content)) |->
        Record(RecordLines(content)[k], match(RecordLines(content)[k]).caps)]

C19_LinesIndependent ==
    [][\A r \in reads :
          (reads' = reads \ {r} /\ RecordLines(r.content) /= <<>>) =>
              /\ chatData' = List(OnePerRecordLine(r.content))
              /\ toast' = [kind |-> "success", count |-> Len(RecordLines(r.content))]]_vars

(* Delivered from the file whose record line stands between a line that is *)
(* no record and a blank line                                              *)
C19_Witness ==
    /\ ~chatData.null
    /\ toast = [kind |-> "success", count |-> 1]
    /\ chatData.list = OnePerRecordLine(Join(<<Junk, GoodB, Blank>>))

(***************************************************************************)
(* C20  The conversation gaps are, for each chronologically consecutive    *)
(* pair of messages more than one day apart, the gap rounded to whole      *)
(* days.  The longest gap is their maximum and the average gap their       *)
(* rounded mean; both are 0 when there is none, and otherwise              *)
(* 1 <= average <= longest.                                                *)
(***************************************************************************)
LongPairs ==
    {i \in 2..Len(Chrono) : Chrono[i].timestamp - Chrono[i - 1].timestamp > 86400}

(* The whole number of days nearest to the gap of pair i, halves upwards *)
WholeDays(i) ==
    LET g == Chrono[i].timestamp - Chrono[i - 1].timestamp
    IN  CHOOSE r \in (g \div 86400)..(g \div 86400 + 1) :
            r * 86400 - 43200 <= g /\ g < r * 86400 + 43200

DaysTotal == SumOver([i \in LongPairs |-> WholeDays(i)], LongPairs)

C20_ConversationGaps ==
    Ok => LET longest == analysis.conversationGaps.longest
              average == analysis.conversationGaps.average
              n == Cardinality(LongPairs)
          IN  IF LongPairs = {} THEN longest = 0 /\ average = 0
              ELSE /\ \E i \in LongPairs : longest = WholeDays(i)
                   /\ \A i \in LongPairs : WholeDays(i) <= longest
                   /\ (2 * average - 1) * n <= 2 * DaysTotal
                   /\ 2 * DaysTotal < (2 * average + 1) * n
                   /\ 1 <= average /\ average <= longest

(* Two gaps of different lengths: the average lies strictly between *)
C20_Witness ==
    /\ Ok
    /\ Cardinality(LongPairs) = 2
    /\ 1 < analysis.conversationGaps.average
    /\ analysis.conversationGaps.average < analysis.conversationGaps.longest

(***************************************************************************)
(* C21  The peak hour is an hour from 0 to 23 in which the most messages   *)
(* of the chat were sent, the lowest such hour when several share the      *)
(* maximum; the peak day is the day of the week with the most messages,    *)
(* the first such day of the week that starts on Sunday.                   *)
(***************************************************************************)
SentInHour(h) == Cardinality({i \in 1..Len(ms0) : (ms0[i].timestamp \div 3600) % 24 = h})
(* 1 January 1970 was a Thursday *)
SentOnDay(d) == Cardinality({i \in 1..Len(ms0) : ((ms0[i].timestamp \div 86400) + 4) % 7 = d})

WeekFromSunday ==
    [d \in 0..6 |->
        CASE d = 0 -> "Sunday" [] d = 1 -> "Monday" [] d = 2 -> "Tuesday"
          [] d = 3 -> "Wednesday" [] d = 4 -> "Thursday" [] d = 5 -> "Friday"
          [] d = 6 -> "Saturday"]

C21_PeakActivity ==
    Ok => /\ analysis.peakActivity.hour \in 0..23
          /\ \A h \in 0..23 : SentInHour(h) <= SentInHour(analysis.peakActivity.hour)
          /\ \A h \in 0..23 :
                h < analysis.peakActivity.hour =>
                    SentInHour(h) < SentInHour(analysis.peakActivity.hour)
          /\ \E d \in 0..6 :
                /\ analysis.peakActivity.day = WeekFromSunday[d]
                /\ \A e \in 0..6 : SentOnDay(e) <= SentOnDay(d)
                /\ \A e \in 0..6 : e < d => SentOnDay(e) < SentOnDay(d)

(* Two hours and two days share the maximum, and the first message of the *)
(* chat is of the later hour and of the later day of the week             *)
C21_Witness ==
    /\ Ok
    /\ \E h \in 0..23 :
          h > analysis.peakActivity.hour /\ SentInHour(h) = SentInHour(analysis.peakActivity.hour)
    /\ (ms0[1].timestamp \div 3600) % 24 > analysis.peakActivity.hour
    /\ \E d, e \in 0..6 :
          /\ d < e /\ SentOnDay(d) = SentOnDay(e)
          /\ analysis.peakActivity.day = WeekFromSunday[d]
          /\ ((ms0[1].timestamp \div 86400) + 4) % 7 = e

(***************************************************************************)
(* C22  The sentiment score of a contact is a whole number from 0 to 100,  *)
(* round(positive / (positive + negative) * 100), where positive and       *)
(* negative count the words of the contact's messages, lower-cased and     *)
(* separated by white space, that contain a word of the positive or of the *)
(* negative lexicon; it is 50 when there is no such word, also when the    *)
(* contact has no message.                                                 *)
(***************************************************************************)
IsWhite(c) == c \in {" ", "\r"}

(* The words of a text: its longest stretches without white space *)
WordSpans(x) ==
    {pq \in (1..Len(x)) \X (1..Len(x)) :
        /\ pq[1] <= pq[2]
        /\ \A i \in pq[1]..pq[2] : ~IsWhite(x[i])
        /\ pq[1] = 1 \/ IsWhite(x[pq[1] - 1])
        /\ pq[2] = Len(x) \/ IsWhite(x[pq[2] + 1])}

SpanHolds(x, pq, lexicon) ==
    \E w \in lexicon : \E k \in pq[1]..(pq[2] - Len(w) + 1) :
        toLowerCase(SubSeq(x, k, k + Len(w) - 1)) = w

HitsIn(x, lexicon) == Cardinality({pq \in WordSpans(x) : SpanHolds(x, pq, lexicon)})

(* The hits of the messages of the chat whose contact is c *)
HitsOf(c, lexicon) ==
    LET from == {i \in 1..Len(ms0) : ms0[i].contact = c}
    IN  SumOver([i \in from |-> HitsIn(ms0[i].message, lexicon)], from)

IsSentimentOf(score, c) ==
    LET p == HitsOf(c, positiveWords)
        n == HitsOf(c, negativeWords)
    IN  /\ score \in 0..100
        /\ IF p + n = 0 THEN score = 50
           ELSE /\ (2 * score - 1) * (p + n) <= 200 * p
                /\ 200 * p < (2 * score + 1) * (p + n)

(* C22, as stated: for each contact of the result, whatever its name. *)
C22_SentimentScores_AnyName ==
    Ok => \A c \in {k1, k2} : IsSentimentOf(analysis.sentimentScores[c], c)

(* C22 on the chats where the keys of the result do not coincide: for each *)
(* contact of the result, unless the only contact is named "undefined".    *)
C22_SentimentScores ==
    (Ok /\ ~(Len(contacts(ms0)) = 1 /\ contact1(ms0) = UndefinedKey)) =>
        \A c \in {k1, k2} : IsSentimentOf(analysis.sentimentScores[c], c)

(* One contact with two positive words in one message against one negative *)
(* word; the other contact without a message                               *)
C22_Witness ==
    /\ Ok
    /\ Len(contacts(ms0)) = 1
    /\ HitsOf(k1, positiveWords) = 2 /\ HitsOf(k1, negativeWords) = 1
    /\ analysis.sentimentScores[k1] = 67
    /\ analysis.sentimentScores[k2] = 50
    /\ \E i \in 1..Len(ms0) : ms0[i].message = GoodNice

(***************************************************************************)
(* C23  Whatever files are submitted, however their reads end and whenever *)
(* the page is reset, the processing indicator is never false while a read *)
(* is outstanding, and once no read is outstanding it eventually returns   *)
(* to false.                                                               *)
(***************************************************************************)
C23_TrueWhileReading == reads /= {} => isProcessing
C23_FalseInTheEnd == [](reads = {} => <>(~isProcessing))

C23_ProcessingIndicator == []C23_TrueWhileReading /\ C23_FalseInTheEnd

(***************************************************************************)
(* C24  When two files are submitted before the read of the first one      *)
(* completes, the chat data of the page, once both reads have completed,   *)
(* is the message list of the file submitted last, in whatever order the   *)
(* reads complete: the result of the earlier submission never replaces     *)
(* that of the later one, also after a reset in between.                   *)
(***************************************************************************)
(* The read r is the last to end and a file submitted after it has been    *)
(* read and delivered (its success toast is the last toast shown)          *)
EndsAfterLaterDelivery(r) ==
    /\ r \in reads
    /\ r.id < submitted
    /\ \A q \in reads : q.id <= r.id
    /\ toast.kind = "success"

C24_LastSubmissionWins ==
    [][\A r \in reads :
          (EndsAfterLaterDelivery(r) /\ reads' = reads \ {r}) => chatData' = chatData]_vars

(***************************************************************************)
(* C25  In every state of the page the chat data is null, and the upload   *)
(* view is what Index renders, or a list of at least one message, and the  *)
(* analysis view is: the parser never delivers an empty list, the analysis *)
(* is never computed on zero messages, and a reset always brings the page  *)
(* back to null and the upload view.                                       *)
(***************************************************************************)
NullOrNonEmpty ==
    \/ chatData.null /\ chatData.list = <<>> /\ analysis.status = "unmounted"
    \/ ~chatData.null /\ Len(chatData.list) > 0 /\ analysis.status \in {"ok", "threw"}

(* A reset is the only step that mounts a new upload view *)
ResetReturnsToUpload ==
    inst' /= inst => chatData' = [null |-> TRUE, list |-> <<>>] /\ analysis'.status = "unmounted"

C25_NullOrNonEmpty == []NullOrNonEmpty /\ [][ResetReturnsToUpload]_vars

(* After a file was delivered and the page was reset *)
C25_Witness == inst > 1 /\ chatData.null /\ toast.kind = "success" /\ reads = {}

====
